---- MODULE Spec2Model ----
(***************************************************************************)
(* Hybrid question-resolution pipeline of the stock backend:               *)
(*   StockAIService.process_question                                       *)
(*     -> EnhancedQueryProcessor.process_question                          *)
(*          -> SemanticMappingService (classify / synthesize / render)     *)
(*          -> LLMService (generate_sql_query / explain_results)           *)
(*          -> DatabaseConnection.execute_query                            *)
(* Text is modelled as text: a Python str is a TLA+ string, scanned as a   *)
(* sequence of one-character strings.                                      *)
(***************************************************************************)
EXTENDS Integers, Sequences, FiniteSets, TLC

(***************************************************************************)
(* Python str primitives                                                   *)
(***************************************************************************)
\* Optional[...] values: None is the empty tuple, a present value v is <<v>>.
None == <<>>

Some(v) == <<v>>

\* the characters of a str, in order
Chars(str) == [i \in 1..Len(str) |-> SubSeq(str, i, i)]

SetMax(S) == CHOOSE x \in S : \A y \in S : y <= x

SetMin(S) == CHOOSE x \in S : \A y \in S : x <= y

UpperChars == Chars("ABCDEFGHIJKLMNOPQRSTUVWXYZ")

LowerChars == Chars("abcdefghijklmnopqrstuvwxyz")

DigitChars == Chars("0123456789")

\* str.lower() on one character (ASCII letters)
LowerChar(c) ==
    IF \E i \in 1..26 : UpperChars[i] = c
    THEN LowerChars[CHOOSE i \in 1..26 : UpperChars[i] = c]
    ELSE c

\* str.upper() on one character (ASCII letters)
UpperChar(c) ==
    IF \E i \in 1..26 : LowerChars[i] = c
    THEN UpperChars[CHOOSE i \in 1..26 : LowerChars[i] = c]
    ELSE c

\* str.lower() / str.upper(), as character sequences
Lower(cs) == [i \in 1..Len(cs) |-> LowerChar(cs[i])]

Upper(cs) == [i \in 1..Len(cs) |-> UpperChar(cs[i])]

\* regex class \d and \s; '.' matches everything but a newline
IsDigit(c) == \E i \in 1..10 : DigitChars[i] = c

IsSpace(c) == c \in {" ", "\t", "\n", "\r"}

\* does the character sequence w occur in cs at position i
OccursAt(cs, w, i) ==
    /\ i >= 1
    /\ i + Len(w) - 1 <= Len(cs)
    /\ \A j \in 1..Len(w) : cs[i + j - 1] = w[j]

\* Python's  w in cs
Contains(cs, w) == \E i \in 1..(Len(cs) + 1) : OccursAt(cs, w, i)

\* cs.startswith(w), cs.endswith(w)
StartsWith(cs, w) == OccursAt(cs, w, 1)

EndsWith(cs, w) == Len(w) <= Len(cs) /\ OccursAt(cs, w, Len(cs) - Len(w) + 1)

\* int(text) for a run of decimal digits
RECURSIVE DigitsValue(_)
DigitsValue(cs) ==
    IF Len(cs) = 0 THEN 0
    ELSE 10 * DigitsValue(SubSeq(cs, 1, Len(cs) - 1))
         + ((CHOOSE i \in 1..10 : DigitChars[i] = cs[Len(cs)]) - 1)

\* CPython refuses int(str) beyond sys.int_max_str_digits digits (ValueError)
IntMaxStrDigits == 4300

IntRaises(cs) == Len(cs) > IntMaxStrDigits

(***************************************************************************)
(* Regular expressions (module re): a pattern is a sequence of atoms.      *)
(*   Lit(c)  the character c          DotStar .*   (greedy)                *)
(*   Ws      \s+  (greedy)            Dig(m)  a capturing group (\d{m,})   *)
(*   Opt(c)  c?   (greedy)                                                 *)
(* Match follows the backtracking order of re: the leftmost start, and for *)
(* every greedy atom the longest extent the rest of the pattern accepts.   *)
(***************************************************************************)
Lit(c) == [k |-> "lit", c |-> c]

DotStar == [k |-> "any"]

Ws == [k |-> "ws"]

Dig(m) == [k |-> "dig", min |-> m]

Opt(c) == [k |-> "opt", c |-> c]

\* a literal word as a pattern
Word(str) == [i \in 1..Len(str) |-> Lit(SubSeq(str, i, i))]

NoMatch == <<>>

\* first position at or after i that is past the end or not a digit / space
DigitRunEnd(cs, i) ==
    SetMin({t \in i..(Len(cs) + 1) : t = Len(cs) + 1 \/ ~IsDigit(cs[t])})

SpaceRunEnd(cs, i) ==
    SetMin({t \in i..(Len(cs) + 1) : t = Len(cs) + 1 \/ ~IsSpace(cs[t])})

\* farthest position '.*' can reach from i: the next newline or the end
LineEnd(cs, i) ==
    SetMin({t \in i..(Len(cs) + 1) : t = Len(cs) + 1 \/ cs[t] = "\n"})

\* the atom after p[k] absorbs any further digits (it is '.*' or the end):
\* shortening a greedy digit group before it can not turn a failure into a match
DigitsAbsorbed(p, k) == k = Len(p) \/ p[k + 1].k = "any"

\* can atom k of p begin at position j (a cheap necessary condition)
CanStart(p, cs, k, j) ==
    IF k > Len(p) THEN TRUE
    ELSE CASE p[k].k = "lit" -> j <= Len(cs) /\ cs[j] = p[k].c
           [] p[k].k = "ws"  -> j <= Len(cs) /\ IsSpace(cs[j])
           [] p[k].k = "dig" -> j <= Len(cs) /\ IsDigit(cs[j])
           [] OTHER          -> TRUE

RECURSIVE Match(_, _, _, _)
\* match atoms k.. of p against cs from position i: NoMatch, or
\* <<[end |-> position after the match, groups |-> <<[from, to], ...>>]>>
Match(p, cs, k, i) ==
    IF k > Len(p) THEN <<[end |-> i, groups |-> <<>>]>>
    ELSE
    CASE p[k].k = "lit" ->
           IF i <= Len(cs) /\ cs[i] = p[k].c THEN Match(p, cs, k + 1, i + 1)
           ELSE NoMatch
      [] p[k].k = "opt" ->
           LET taken == IF i <= Len(cs) /\ cs[i] = p[k].c
                        THEN Match(p, cs, k + 1, i + 1) ELSE NoMatch
           IN  IF taken # NoMatch THEN taken ELSE Match(p, cs, k + 1, i)
      [] p[k].k = "any" ->
           \* greedy: the farthest j from which the rest matches.  Before a
           \* digit group that absorbs its run, only the last digit of a run
           \* can be that j (every j of one run leads to the same rest).
           LET lastOfRun(j) == j = Len(cs) \/ ~IsDigit(cs[j + 1])
               cands == {j \in i..LineEnd(cs, i) :
                           /\ CanStart(p, cs, k + 1, j)
                           /\ (k < Len(p) /\ p[k + 1].k = "dig"
                               /\ p[k + 1].min = 1 /\ DigitsAbsorbed(p, k + 1))
                              => lastOfRun(j)}
               ok == {j \in cands : Match(p, cs, k + 1, j) # NoMatch}
           IN  IF ok = {} THEN NoMatch ELSE Match(p, cs, k + 1, SetMax(ok))
      [] p[k].k = "ws" ->
           LET e == SpaceRunEnd(cs, i)
               ok == {j \in (i + 1)..e : Match(p, cs, k + 1, j) # NoMatch}
           IN  IF ok = {} THEN NoMatch ELSE Match(p, cs, k + 1, SetMax(ok))
      [] p[k].k = "dig" ->
           LET e == DigitRunEnd(cs, i)
               cands == IF DigitsAbsorbed(p, k) THEN {e} ELSE (i + p[k].min)..e
               ok == {j \in cands :
                        j >= i + p[k].min /\ Match(p, cs, k + 1, j) # NoMatch}
           IN  IF ok = {} THEN NoMatch
               ELSE LET j == SetMax(ok)
                        r == Match(p, cs, k + 1, j)[1]
                    IN  <<[end |-> r.end,
                           groups |-> <<[from |-> i, to |-> j - 1]>> \o r.groups]>>

\* re.search(p, cs): the match at the leftmost start, or NoMatch
Search(p, cs) ==
    LET \* a pattern that opens with an absorbed digit group matches from
        \* inside a run only if it matches from the start of that run
        firstOfRun(i) == i = 1 \/ ~IsDigit(cs[i - 1])
        starts == {i \in 1..(Len(cs) + 1) :
                     /\ CanStart(p, cs, 1, i)
                     /\ (p[1].k = "dig" /\ DigitsAbsorbed(p, 1)) => firstOfRun(i)}
        ok == {i \in starts : Match(p, cs, 1, i) # NoMatch}
    IN  IF ok = {} THEN NoMatch ELSE Match(p, cs, 1, SetMin(ok))

RECURSIVE Str(_)
\* ''.join(cs): the str made of the characters cs
Str(cs) ==
    IF Len(cs) = 0 THEN ""
    ELSE IF Len(cs) = 1 THEN cs[1]
    ELSE LET h == Len(cs) \div 2
         IN  Str(SubSeq(cs, 1, h)) \o Str(SubSeq(cs, h + 1, Len(cs)))

\* match.group(n) of a successful search m in cs, as characters
Group(cs, m, n) == SubSeq(cs, m[1].groups[n].from, m[1].groups[n].to)

\* match.groups() of a successful search m in cs, as a tuple of str
Groups(cs, m) == [n \in 1..Len(m[1].groups) |-> Str(Group(cs, m, n))]

(***************************************************************************)
(* SemanticMappingService                                                  *)
(***************************************************************************)
\* the intents scanned in the reverse order
QueryTypesReversed == <<"trend_history", "trend_change", "trend_current">>

\* query_patterns: the intents in declaration order (dict insertion order)
QueryTypes == <<"trend_current", "trend_change", "trend_history">>

\* query_patterns[intent][0]['patterns'], in declared order
Patterns(qt) ==
    CASE qt = "trend_current" ->
           << Word("trend") \o <<DotStar>> \o Word("symbol") \o <<Ws, Dig(1)>>,
              Word("trend") \o <<DotStar>> \o Word("stock") \o <<Ws, Dig(1)>>,
              <<Dig(1), DotStar>> \o Word("trend") \o <<DotStar>> \o Word("today"),
              Word("current") \o <<DotStar>> \o Word("trend") \o <<DotStar, Dig(1)>>,
              Word("how") \o <<DotStar, Dig(1), DotStar>> \o Word("trending") >>
      [] qt = "trend_change" ->
           << Word("last") \o <<DotStar>> \o Word("time") \o <<DotStar, Dig(1), DotStar>>
                \o Word("moved") \o <<DotStar>> \o Word("uptrend") \o <<DotStar>>
                \o Word("downtrend"),
              Word("last") \o <<DotStar>> \o Word("time") \o <<DotStar, Dig(1), DotStar>>
                \o Word("changed") \o <<DotStar>> \o Word("long") \o <<DotStar>>
                \o Word("short"),
              Word("when") \o <<DotStar, Dig(1), DotStar>> \o Word("moved")
                \o <<DotStar>> \o Word("up") \o <<DotStar>> \o Word("down"),
              Word("trend") \o <<DotStar>> \o Word("change") \o <<DotStar, Dig(1)>> >>
      [] qt = "trend_history" ->
           << Word("trend") \o <<DotStar>> \o Word("history") \o <<DotStar, Dig(1)>>,
              <<Dig(1), DotStar>> \o Word("trend") \o <<DotStar>> \o Word("last")
                \o <<DotStar, Dig(1), DotStar>> \o Word("days"),
              Word("how") \o <<DotStar, Dig(1), DotStar>> \o Word("trending")
                \o <<DotStar>> \o Word("last") >>

\* query_patterns[intent][0]['sql_template']: literal text and {placeholders}
SqlTemplate(qt) ==
    CASE qt = "trend_current" ->
           << [lit |-> "\n                        SELECT s.Nrnum, s.Date, s.TheTrendD, s.Price, s.UpsDowns,\n                               n.HebName, n.EngName\n                        FROM stock_data s\n                        LEFT JOIN name_index n ON s.Nrnum = n.Nrnum\n                        WHERE s.Nrnum = "],
              [ph |-> "symbol"],
              [lit |-> "\n                        ORDER BY s.Date DESC\n                        LIMIT 1\n                    "] >>
      [] qt = "trend_change" ->
           << [lit |-> "\n                        SELECT s1.Nrnum, s1.Date, s1.TheTrendD as from_trend, \n                               s2.TheTrendD as to_trend, s1.Price, s1.UpsDowns,\n                               n.HebName, n.EngName\n                        FROM stock_data s1\n                        JOIN stock_data s2 ON s1.Nrnum = s2.Nrnum \n                            AND s1.Date < s2.Date\n                        LEFT JOIN name_index n ON s1.Nrnum = n.Nrnum\n                        WHERE s1.Nrnum = "],
              [ph |-> "symbol"],
              [lit |-> "\n                            AND s1.TheTrendD = 1 AND s2.TheTrendD = 2\n                        ORDER BY s1.Date DESC\n                        LIMIT 10\n                    "] >>
      [] qt = "trend_history" ->
           << [lit |-> "\n                        SELECT s.Nrnum, s.Date, s.TheTrendD, s.Price, s.UpsDowns,\n                               n.HebName, n.EngName\n                        FROM stock_data s\n                        LEFT JOIN name_index n ON s.Nrnum = n.Nrnum\n                        WHERE s.Nrnum = "],
              [ph |-> "symbol"],
              [lit |-> "\n                        ORDER BY s.Date DESC\n                        LIMIT "],
              [ph |-> "days"],
              [lit |-> "\n                    "] >>

RECURSIVE Format(_, _)
\* str.format(**args): every {placeholder} replaced by str(args[placeholder])
Format(template, args) ==
    IF Len(template) = 0 THEN ""
    ELSE LET part == Head(template)
         IN  (IF "ph" \in DOMAIN part THEN args[part.ph] ELSE part.lit)
             \o Format(Tail(template), args)

\* the three patterns with the bare digit run tried first
SymbolPatternsBareFirst ==
    << <<Dig(6)>>,
       Word("symbol") \o <<Ws, Dig(1)>>,
       Word("stock") \o <<Ws, Dig(1)>> >>

\* extract_symbol_from_question: its three patterns, in rule order
SymbolPatterns ==
    << Word("symbol") \o <<Ws, Dig(1)>>,
       Word("stock") \o <<Ws, Dig(1)>>,
       <<Dig(6)>> >>

\* an extraction that returns what the last satisfied rule finds
extract_symbol_last_rule(question) ==
    LET found(cs) ==
            LET hits == {n \in 1..Len(SymbolPatterns) :
                           Search(SymbolPatterns[n], cs) # NoMatch}
            IN  IF hits = {} THEN None
                ELSE Some(Str(Group(cs, Search(SymbolPatterns[SetMax(hits)], cs), 1)))
    IN  CHOOSE r \in {found(cs) : cs \in {Lower(Chars(question))}} : TRUE

\* extract_symbol_from_question(question): None or Some(symbol text).
\* re.IGNORECASE is matched on the lower-cased text (digits are unchanged).
extract_symbol_from_question(question) ==
    LET found(cs) ==
            LET hits == {n \in 1..Len(SymbolPatterns) :
                           Search(SymbolPatterns[n], cs) # NoMatch}
            IN  IF hits = {} THEN None
                ELSE Some(Str(Group(cs, Search(SymbolPatterns[SetMin(hits)], cs), 1)))
    IN  \* cs is a local of the source: computed once, where it is assigned
        CHOOSE r \in {found(cs) : cs \in {Lower(Chars(question))}} : TRUE

\* classify_question_type(question): [type, context]; the first pattern of
\* the first intent, in declaration order, that re.search finds
classify_question_type(question) ==
    LET matching(cs) ==
            {<<t, n>> \in (1..Len(QueryTypes)) \X (1..5) :
                /\ n <= Len(Patterns(QueryTypes[t]))
                /\ Search(Patterns(QueryTypes[t])[n], cs) # NoMatch}
        classified_as(cs, pairs) ==
            IF pairs = {} THEN [type |-> "general", context |-> None]
            ELSE LET first == CHOOSE pr \in pairs : \A o \in pairs :
                                 pr[1] < o[1] \/ (pr[1] = o[1] /\ pr[2] <= o[2])
                 IN  [type |-> QueryTypes[first[1]],
                      context |-> Some([pattern |-> first[2],
                                        sql_template |-> SqlTemplate(QueryTypes[first[1]]),
                                        matches |-> Groups(cs,
                                            Search(Patterns(QueryTypes[first[1]])[first[2]],
                                                   cs))])]
        classify(cs) ==
            CHOOSE r \in {classified_as(cs, pairs) : pairs \in {matching(cs)}} : TRUE
    IN  CHOOSE r \in {classify(cs) : cs \in {Lower(Chars(question))}} : TRUE

\* the day-count pattern (\d+).*days? of generate_contextual_sql
DaysPattern == <<Dig(1), DotStar>> \o Word("day") \o <<Opt("s")>>

\* the day count of generate_contextual_sql: 7 unless the pattern matches;
\* [raises |-> TRUE] when int() refuses the captured digits
ExtractDays(question) ==
    LET days_of(cs, m) ==
            IF m = NoMatch THEN [raises |-> FALSE, days |-> 7]
            ELSE IF IntRaises(Group(cs, m, 1)) THEN [raises |-> TRUE, days |-> 0]
            ELSE [raises |-> FALSE, days |-> DigitsValue(Group(cs, m, 1))]
        extract(cs) ==
            CHOOSE r \in {days_of(cs, m) : m \in {Search(DaysPattern, cs)}} : TRUE
    IN  CHOOSE r \in {extract(cs) : cs \in {Lower(Chars(question))}} : TRUE

\* a synthesis that asks for seven days of history whatever the question says
generate_contextual_sql_week(question, question_type, context) ==
    LET tpl == context[1].sql_template
        with_symbol(symbol) ==
            IF symbol # None
            THEN [raises |-> FALSE, sql |-> Some(Format(tpl, [symbol |-> symbol[1]]))]
            ELSE [raises |-> FALSE, sql |-> None]
        history(symbol) ==
            IF symbol # None
            THEN [raises |-> FALSE,
                  sql |-> Some(Format(tpl, [symbol |-> symbol[1], days |-> "7"]))]
            ELSE [raises |-> FALSE, sql |-> None]
    IN  CASE question_type \in {"trend_current", "trend_change"} ->
               CHOOSE r \in {with_symbol(symbol) :
                               symbol \in {extract_symbol_from_question(question)}} : TRUE
          [] question_type = "trend_history" ->
               CHOOSE r \in {history(symbol) :
                               symbol \in {extract_symbol_from_question(question)}} : TRUE
          [] OTHER -> [raises |-> FALSE, sql |-> None]

\* a synthesis that takes the symbol from the classifier's first capture group
generate_contextual_sql_captured(question, question_type, context) ==
    LET tpl == context[1].sql_template
        captured == context[1].matches[1]
        with_symbol(symbol) ==
            IF symbol # None
            THEN [raises |-> FALSE, sql |-> Some(Format(tpl, [symbol |-> captured]))]
            ELSE [raises |-> FALSE, sql |-> None]
        with_days(symbol, d) ==
            IF d.raises THEN [raises |-> TRUE, sql |-> None]
            ELSE IF symbol # None
            THEN [raises |-> FALSE,
                  sql |-> Some(Format(tpl, [symbol |-> captured,
                                            days |-> ToString(d.days)]))]
            ELSE [raises |-> FALSE, sql |-> None]
        history(symbol) ==
            CHOOSE r \in {with_days(symbol, d) : d \in {ExtractDays(question)}} : TRUE
    IN  CASE question_type \in {"trend_current", "trend_change"} ->
               CHOOSE r \in {with_symbol(symbol) :
                               symbol \in {extract_symbol_from_question(question)}} : TRUE
          [] question_type = "trend_history" ->
               CHOOSE r \in {history(symbol) :
                               symbol \in {extract_symbol_from_question(question)}} : TRUE
          [] OTHER -> [raises |-> FALSE, sql |-> None]

\* a synthesis that fills the template whether or not a symbol was found
generate_contextual_sql_unchecked(question, question_type, context) ==
    LET tpl == context[1].sql_template
        text(symbol) == IF symbol # None THEN symbol[1] ELSE "None"
        with_symbol(symbol) ==
            [raises |-> FALSE,
             sql |-> Some(Format(tpl, [symbol |-> text(symbol)]))]
        with_days(symbol, d) ==
            IF d.raises THEN [raises |-> TRUE, sql |-> None]
            ELSE [raises |-> FALSE,
                  sql |-> Some(Format(tpl, [symbol |-> text(symbol),
                                            days |-> ToString(d.days)]))]
        history(symbol) ==
            CHOOSE r \in {with_days(symbol, d) : d \in {ExtractDays(question)}} : TRUE
    IN  CASE question_type \in {"trend_current", "trend_change"} ->
               CHOOSE r \in {with_symbol(symbol) :
                               symbol \in {extract_symbol_from_question(question)}} : TRUE
          [] question_type = "trend_history" ->
               CHOOSE r \in {history(symbol) :
                               symbol \in {extract_symbol_from_question(question)}} : TRUE
          [] OTHER -> [raises |-> FALSE, sql |-> None]

\* generate_contextual_sql(question, question_type, context):
\* [raises, sql] with sql None (no query) or Some(query text)
generate_contextual_sql(question, question_type, context) ==
    LET tpl == context[1].sql_template
        with_symbol(symbol) ==
            IF symbol # None
            THEN [raises |-> FALSE, sql |-> Some(Format(tpl, [symbol |-> symbol[1]]))]
            ELSE [raises |-> FALSE, sql |-> None]
        with_days(symbol, d) ==
            IF d.raises THEN [raises |-> TRUE, sql |-> None]
            ELSE IF symbol # None
            THEN [raises |-> FALSE,
                  sql |-> Some(Format(tpl, [symbol |-> symbol[1],
                                            days |-> ToString(d.days)]))]
            ELSE [raises |-> FALSE, sql |-> None]
        history(symbol) ==
            CHOOSE r \in {with_days(symbol, d) : d \in {ExtractDays(question)}} : TRUE
    IN  CASE question_type \in {"trend_current", "trend_change"} ->
               CHOOSE r \in {with_symbol(symbol) :
                              symbol \in {extract_symbol_from_question(question)}} : TRUE
          [] question_type = "trend_history" ->
               CHOOSE r \in {history(symbol) :
                              symbol \in {extract_symbol_from_question(question)}} : TRUE
          [] OTHER -> [raises |-> FALSE, sql |-> None]

\* dict.get(key) and dict.get(key, default) on a result row; a row maps
\* column names to None or Some(text of the value)
Get(row, key) == IF key \in DOMAIN row THEN row[key] ELSE None

GetOr(row, key, default) == IF key \in DOMAIN row THEN row[key] ELSE Some(default)

\* str(value) / f"{value}"
PyStr(v) == IF v = None THEN "None" ELSE v[1]

\* truth value of a text-or-None value (None and '' are falsy)
Truthy(v) == v # None /\ v[1] # ""

\* field_definitions['TheTrendD'].possible_values
TrendMeanings ==
    [v \in {"0", "1", "2"} |->
        CASE v = "0" -> "sideways (no clear trend)"
          [] v = "1" -> "uptrend (long position)"
          [] v = "2" -> "downtrend (short position)"]

\* FieldDefinition.get_value_description(value); possible_values is None or
\* Some(mapping from the text of a value to its meaning)
get_value_description(possible_values, value) ==
    IF possible_values # None /\ DOMAIN possible_values[1] # {}
       /\ PyStr(value) \in DOMAIN possible_values[1]
    THEN possible_values[1][PyStr(value)]
    ELSE PyStr(value)

\* interpret_trend_value(value)
interpret_trend_value(value) ==
    IF PyStr(value) \in DOMAIN TrendMeanings THEN TrendMeanings[PyStr(value)]
    ELSE "Unknown trend value: " \o PyStr(value)

\* a stock name that prefers the localized name
StockNameLocalFirst(row) ==
    IF Truthy(Get(row, "HebName")) THEN PyStr(Get(row, "HebName"))
    ELSE IF Truthy(Get(row, "EngName")) THEN PyStr(Get(row, "EngName"))
    ELSE "Stock " \o PyStr(GetOr(row, "Nrnum", "Unknown"))

\* result.get('EngName') or result.get('HebName') or f"Stock {symbol}"
StockName(row) ==
    IF Truthy(Get(row, "EngName")) THEN PyStr(Get(row, "EngName"))
    ELSE IF Truthy(Get(row, "HebName")) THEN PyStr(Get(row, "HebName"))
    ELSE "Stock " \o PyStr(GetOr(row, "Nrnum", "Unknown"))

RECURSIVE JoinStr(_, _)
\* sep.join(parts)
JoinStr(sep, parts) ==
    IF Len(parts) = 0 THEN ""
    ELSE IF Len(parts) = 1 THEN parts[1]
    ELSE parts[1] \o sep \o JoinStr(sep, Tail(parts))

\* one entry of the trend_change list
ChangeText(row) ==
    StockName(row) \o " changed from " \o interpret_trend_value(Get(row, "from_trend"))
    \o " to " \o interpret_trend_value(Get(row, "to_trend"))
    \o " on " \o PyStr(Get(row, "Date"))

RECURSIVE TrendSummaryPerRow(_, _)
\* a summary that makes one item of every row
TrendSummaryPerRow(results, acc) ==
    IF Len(results) = 0 THEN acc
    ELSE TrendSummaryPerRow(Tail(results),
            Append(acc, [trend |-> interpret_trend_value(Get(Head(results), "TheTrendD")),
                         count |-> 1]))

RECURSIVE TrendSummary(_, _)
\* the trend_summary dict of the history branch, as the sequence of its
\* (trend, count) items in insertion order
TrendSummary(results, acc) ==
    IF Len(results) = 0 THEN acc
    ELSE LET trend == interpret_trend_value(Get(Head(results), "TheTrendD"))
             seen == {i \in 1..Len(acc) : acc[i].trend = trend}
         IN  TrendSummary(Tail(results),
                IF seen = {} THEN Append(acc, [trend |-> trend, count |-> 1])
                ELSE [i \in 1..Len(acc) |->
                        IF i \in seen THEN [acc[i] EXCEPT !.count = @ + 1] ELSE acc[i]])

\* a renderer that lists every change
generate_natural_response_uncapped(question, results, question_type) ==
    IF Len(results) = 0 THEN "No data found for your query."
    ELSE CASE question_type = "trend_current" ->
                "The current trend for " \o StockName(results[1])
                \o " (symbol " \o PyStr(GetOr(results[1], "Nrnum", "Unknown"))
                \o ") as of " \o PyStr(Get(results[1], "Date"))
                \o " is " \o interpret_trend_value(Get(results[1], "TheTrendD"))
                \o ". The stock price is " \o PyStr(Get(results[1], "Price")) \o "."
           [] question_type = "trend_change" ->
                LET changes == [i \in 1..Len(results) |-> ChangeText(results[i])]
                IN  "Found " \o ToString(Len(results)) \o " trend changes. Recent changes: "
                    \o JoinStr("; ", changes) \o "."
           [] question_type = "trend_history" ->
                LET summary == TrendSummary(results, <<>>)
                    parts == [i \in 1..Len(summary) |->
                                ToString(summary[i].count) \o " days of " \o summary[i].trend]
                IN  "Trend history for " \o StockName(results[1])
                    \o " (symbol " \o PyStr(GetOr(results[1], "Nrnum", "Unknown")) \o "): "
                    \o JoinStr(", ", parts) \o "."
           [] OTHER ->
                "Found " \o ToString(Len(results)) \o " results for your query."

\* a renderer that does not look whether there are rows
generate_natural_response_unguarded(question, results, question_type) ==
    "Found " \o ToString(Len(results)) \o " results for your query."

\* generate_natural_response(question, results, question_type)
generate_natural_response(question, results, question_type) ==
    IF Len(results) = 0 THEN "No data found for your query."
    ELSE CASE question_type = "trend_current" ->
                "The current trend for " \o StockName(results[1])
                \o " (symbol " \o PyStr(GetOr(results[1], "Nrnum", "Unknown"))
                \o ") as of " \o PyStr(Get(results[1], "Date"))
                \o " is " \o interpret_trend_value(Get(results[1], "TheTrendD"))
                \o ". The stock price is " \o PyStr(Get(results[1], "Price")) \o "."
           [] question_type = "trend_change" ->
                LET shown == SubSeq(results, 1, IF Len(results) < 5 THEN Len(results) ELSE 5)
                    changes == [i \in 1..Len(shown) |-> ChangeText(shown[i])]
                IN  "Found " \o ToString(Len(results)) \o " trend changes. Recent changes: "
                    \o JoinStr("; ", changes) \o "."
           [] question_type = "trend_history" ->
                LET summary == TrendSummary(results, <<>>)
                    parts == [i \in 1..Len(summary) |->
                                ToString(summary[i].count) \o " days of " \o summary[i].trend]
                IN  "Trend history for " \o StockName(results[1])
                    \o " (symbol " \o PyStr(GetOr(results[1], "Nrnum", "Unknown")) \o "): "
                    \o JoinStr(", ", parts) \o "."
           [] OTHER ->
                "Found " \o ToString(Len(results)) \o " results for your query."

(***************************************************************************)
(* LLMService                                                              *)
(***************************************************************************)
\* str.strip(): leading and trailing whitespace removed
Strip(cs) ==
    LET keep == {i \in 1..Len(cs) : ~IsSpace(cs[i])}
    IN  IF keep = {} THEN <<>> ELSE SubSeq(cs, SetMin(keep), SetMax(keep))

RECURSIVE Replace(_, _, _)
\* str.replace(old, new): every non-overlapping occurrence, left to right
Replace(cs, old, new) ==
    IF Len(cs) = 0 THEN <<>>
    ELSE IF OccursAt(cs, old, 1)
         THEN new \o Replace(SubSeq(cs, Len(old) + 1, Len(cs)), old, new)
         ELSE <<cs[1]>> \o Replace(Tail(cs), old, new)

\* the backtick character (written so, as a lone backtick does not lex)
Backtick == SubSeq("`'", 1, 1)

\* the code-fence marker of three backticks
Fence == Backtick \o Backtick \o Backtick

\* a clean-up that lets apology text through
SanitizeSqlKeepingRefusal(content) ==
    LET fence == Chars(Fence)
        fenceSql == Chars(Fence \o "sql")
        s0 == Strip(Chars(content))
        s1 == IF StartsWith(s0, fenceSql)
              THEN Strip(Replace(Replace(s0, fenceSql, <<>>), fence, <<>>))
              ELSE IF StartsWith(s0, fence) THEN Strip(Replace(s0, fence, <<>>))
              ELSE s0
    IN  Str(IF EndsWith(s1, <<";">>) THEN s1 ELSE s1 \o <<";">>)

\* the clean-up generate_sql_query applies to response.content
SanitizeSql(content) ==
    LET fence == Chars(Fence)
        fenceSql == Chars(Fence \o "sql")
        s0 == Strip(Chars(content))
        s1 == IF StartsWith(s0, fenceSql)
              THEN Strip(Replace(Replace(s0, fenceSql, <<>>), fence, <<>>))
              ELSE IF StartsWith(s0, fence) THEN Strip(Replace(s0, fence, <<>>))
              ELSE s0
        refusal == \E w \in {"I'm sorry", "I cannot", "does not contain"} :
                       Contains(s1, Chars(w))
        s2 == IF refusal
              THEN Chars("SELECT 1 LIMIT 0; -- No valid query could be generated")
              ELSE s1
        placeholder == \E w \in {"[Enter", "[specific", "[value"} :
                           Contains(s2, Chars(w))
        s3 == IF placeholder
              THEN Replace(Replace(Replace(Replace(s2,
                       Chars("[Enter Stock Nrnum Here]"), <<"1">>),
                       Chars("[Enter specific value]"), <<"1">>),
                       Chars("[value]"), <<"1">>),
                       Chars("[Enter value here]"), <<"1">>)
              ELSE s2
        s4 == IF EndsWith(s3, <<";">>) THEN s3 ELSE s3 \o <<";">>
    IN  Str(s4)

\* generate_sql_query(user_question, table_info), given what llm.invoke does:
\* it raises (its message is raised.msg) or returns response.content
generate_sql_query(user_question, invoked) ==
    IF invoked.raises
    THEN [status |-> "error", message |-> invoked.msg]
    ELSE [status |-> "success", sql_query |-> SanitizeSql(invoked.content)]

\* an explanation whose fallback text does not count the rows
explain_results_uncounted(results, invoked) ==
    IF invoked.raises
    THEN "Found results for your query. Please review the data for specific insights."
    ELSE Str(Strip(Chars(invoked.content)))

\* explain_results(question, results, sql_query), given what llm.invoke does
explain_results(results, invoked) ==
    IF invoked.raises
    THEN "Found " \o ToString(Len(results))
         \o " results for your query. Please review the data for specific insights."
    ELSE Str(Strip(Chars(invoked.content)))

(***************************************************************************)
(* DatabaseConnection                                                      *)
(***************************************************************************)
\* execute_query(query), given what the driver does: it raises, or the
\* cursor returns rows
execute_query(driver) ==
    IF driver.raises
    THEN [status |-> "error", message |-> driver.msg]
    ELSE [status |-> "success", data |-> driver.rows, row_count |-> Len(driver.rows)]

\* test_connection(), given what the driver does
test_connection(driver) ==
    IF driver.raises
    THEN [status |-> "error", message |-> driver.msg]
    ELSE [status |-> "connected", tables |-> driver.tables]

(***************************************************************************)
(* Inputs: the questions, limits and collaborator behaviours explored      *)
(***************************************************************************)
\* longest generated question, in words
MaxWords == 2

\* most rows a query returns
MaxRows == 2

Vocabulary == <<"trend", "history", "symbol", "230011", "days">>

RECURSIVE Repeat(_, _)
\* str * n
Repeat(str, n) ==
    IF n = 0 THEN ""
    ELSE IF n = 1 THEN str
    ELSE Repeat(str, n \div 2) \o Repeat(str, n - (n \div 2))

\* a question whose day count has more digits than int() converts
LongDaysQuestion == "trend history " \o Repeat("9", IntMaxStrDigits + 1) \o " days"

\* questions of the repository's tests and suggestions, and edge cases
NamedQuestions ==
    { "What is the trend on symbol 230011 today?",
      "When was the last time symbol 230011 moved from uptrend to downtrend?",
      "Show me the trend history for symbol 230011 over the last 7 days",
      "What stocks have high volume?",
      "Show me stocks with uptrend in the last week",
      "What is the average price for stock 230011?",
      "Show me the trend history for 230011 over the last 7 days",
      "How is 230011 trending today?",
      "What is the current trend for stock 230011?",
      "Trend change 5",
      "Current trend 5",
      "Trend history 30 days",
      "trend history\n230011 days",
      "Compare 1234567 with the trend on symbol 123456",
      "Trend on stock 123456 or symbol 1234567",
      LongDaysQuestion }

\* the questions of n vocabulary words joined by single spaces
WordQuestions(n) ==
    { JoinStr(" ", [i \in 1..n |-> Vocabulary[w[i]]]) :
        w \in [1..n -> 1..Len(Vocabulary)] }

Questions == NamedQuestions \cup UNION { WordQuestions(n) : n \in 1..MaxWords }

\* QueryRequest.limit: Optional[int], default 100
Limits == {None, Some(100)}

\* str(e) of the exceptions the collaborators raise
ErrorMessages == {"", "connection lost"}

\* response.content of the query-generation call
SqlContents ==
    { "SELECT * FROM stock_data",
      "SELECT Nrnum FROM stock_data LIMIT 5;",
      Fence \o "sql\nSELECT Price FROM stock_data;\n" \o Fence,
      "I'm sorry, I cannot help",
      "The table does not contain volume. SELECT 1",
      "SELECT * FROM stock_data WHERE Nrnum = [Enter Stock Nrnum Here]",
      "SELECT * FROM stock_data WHERE Nrnum = [Enter symbol]" }

\* response.content of the explanation call
ExplanationContents == {"", " The stock is rising. "}

\* what llm.invoke does on one call
Raised(msg) == [raises |-> TRUE, msg |-> msg]

SqlInvocations ==
    { Raised(m) : m \in ErrorMessages }
    \cup { [raises |-> FALSE, content |-> c] : c \in SqlContents }

ExplainInvocations ==
    { Raised(m) : m \in ErrorMessages }
    \cup { [raises |-> FALSE, content |-> c] : c \in ExplanationContents }

\* rows a cursor returns (dictionary=True): column name -> None or Some(text)
SampleRows ==
    { [Nrnum |-> Some("230011"), Date |-> Some("2024-01-05"), TheTrendD |-> Some("1"),
       Price |-> Some("10.5"), HebName |-> Some("heb"), EngName |-> Some("ACME")],
      [Nrnum |-> Some("230011"), Date |-> Some("2024-01-04"), from_trend |-> Some("1"),
       to_trend |-> Some("2"), HebName |-> None, EngName |-> Some("")] }

RowSeqs == UNION { [1..n -> SampleRows] : n \in 0..MaxRows }

\* what the database driver does on one execute_query
QueryRuns ==
    { Raised(m) : m \in ErrorMessages }
    \cup { [raises |-> FALSE, rows |-> rs] : rs \in RowSeqs }

\* table information: a sequence of [name, columns]; <<>> is the empty dict
StockTables ==
    << [name |-> "stock_data",
        columns |-> << [field |-> "Nrnum", type |-> "int", null |-> "NO", key |-> "PRI"] >>] >>

\* what the database driver does on one test_connection
ConnectionTests ==
    { Raised(m) : m \in ErrorMessages }
    \cup { [raises |-> FALSE, tables |-> tb] : tb \in {<<>>, StockTables} }

(***************************************************************************)
(* QueryResponse (models/schemas.py)                                       *)
(***************************************************************************)
\* an error response that carries rows
ErrorResponseWithRows(q, sql, message) ==
    [status |-> "error", question |-> q, sql_query |-> sql, results |-> Some(<<>>),
     explanation |-> None, row_count |-> None, error_message |-> Some(message),
     query_type |-> None]

\* QueryResponse(status="error", question=..., sql_query=..., error_message=...)
ErrorResponse(q, sql, message) ==
    [status |-> "error", question |-> q, sql_query |-> sql, results |-> None,
     explanation |-> None, row_count |-> None, error_message |-> Some(message),
     query_type |-> None]

\* QueryResponse(status="success", ...)
SuccessResponse(q, sql, results, explanation, row_count, query_type) ==
    [status |-> "success", question |-> q, sql_query |-> Some(sql),
     results |-> Some(results), explanation |-> Some(explanation),
     row_count |-> Some(row_count), error_message |-> None,
     query_type |-> Some(query_type)]

(***************************************************************************)
(* State                                                                   *)
(***************************************************************************)
VARIABLES
    table_info,     \* StockAIService.table_info: None or Some(tables)
    pc,             \* position of the resolution in progress
    question,       \* the request: its question ...
    limit,          \* ... and its limit
    classified,     \* (question_type, context) once classified
    template,       \* how the template path went (history)
    sql_query,      \* the query of the path in progress
    llm_response,   \* what generate_sql_query returned
    query_result,   \* what the last execute_query returned
    generate_call,  \* what llm.invoke did in generate_sql_query (history)
    explain_call,   \* what llm.invoke did in explain_results (history)
    rendered,       \* the last generate_natural_response call (history)
    result,         \* what process_question returned: None until it returns
    calls           \* the collaborator calls of this resolution, in order

vars == <<table_info, pc, question, limit, classified, template, sql_query,
          llm_response, query_result, generate_call, explain_call, rendered,
          result, calls>>

\* one logged call: the function, the path it serves and the text it is given
Call(fn, path, arg) == [fn |-> fn, path |-> path, arg |-> arg]

\* a test that takes the empty dict for table information
NoTableInfoUnlessEmpty(info) == info = None

\* Python's  not self.table_info  (None and the empty dict are falsy)
NoTableInfo(info) == info = None \/ info[1] = <<>>

\* _load_table_info(): the table information after the attempt
LoadTableInfo(info, driver) ==
    LET db_status == test_connection(driver)
    IN  IF db_status.status = "connected" THEN Some(db_status.tables) ELSE info

\* a control flow that returns when the synthesis gives no query
NextPcReturningNothing(at, outcome) ==
    CASE at = "classify" ->
           IF outcome # "general" THEN "synthesize" ELSE "generate"
      [] at = "synthesize" ->
           IF outcome = "query" THEN "execute_semantic" ELSE "done"
      [] at = "execute_semantic" ->
           IF outcome = "error" THEN "generate" ELSE "done"
      [] at = "generate" ->
           IF outcome = "error" THEN "done" ELSE "execute_llm"
      [] at = "execute_llm" ->
           IF outcome = "error" THEN "done" ELSE "explain"
      [] at = "explain" -> "done"

\* a control flow that returns when the template query fails
NextPcWithoutFallback(at, outcome) ==
    CASE at = "classify" ->
           IF outcome # "general" THEN "synthesize" ELSE "generate"
      [] at = "synthesize" ->
           IF outcome = "query" THEN "execute_semantic" ELSE "generate"
      [] at = "execute_semantic" ->
           "done"
      [] at = "generate" ->
           IF outcome = "error" THEN "done" ELSE "execute_llm"
      [] at = "execute_llm" ->
           IF outcome = "error" THEN "done" ELSE "explain"
      [] at = "explain" -> "done"

\* a control flow that tries the template path for 'general' too
NextPcAlwaysTemplate(at, outcome) ==
    CASE at = "classify" ->
           "synthesize"
      [] at = "synthesize" ->
           IF outcome = "query" THEN "execute_semantic" ELSE "generate"
      [] at = "execute_semantic" ->
           IF outcome = "error" THEN "generate" ELSE "done"
      [] at = "generate" ->
           IF outcome = "error" THEN "done" ELSE "execute_llm"
      [] at = "execute_llm" ->
           IF outcome = "error" THEN "done" ELSE "explain"
      [] at = "explain" -> "done"

\* a control flow that generates again when the generated query fails
NextPcRegenerating(at, outcome) ==
    CASE at = "classify" ->
           IF outcome # "general" THEN "synthesize" ELSE "generate"
      [] at = "synthesize" ->
           IF outcome = "query" THEN "execute_semantic" ELSE "generate"
      [] at = "execute_semantic" ->
           IF outcome = "error" THEN "generate" ELSE "done"
      [] at = "generate" ->
           IF outcome = "error" THEN "done" ELSE "execute_llm"
      [] at = "execute_llm" ->
           IF outcome = "error" THEN "generate" ELSE "explain"
      [] at = "explain" -> "done"

\* a control flow that goes back to the template path when the generated query fails
NextPcBackToTemplate(at, outcome) ==
    CASE at = "classify" ->
           IF outcome # "general" THEN "synthesize" ELSE "generate"
      [] at = "synthesize" ->
           IF outcome = "query" THEN "execute_semantic" ELSE "generate"
      [] at = "execute_semantic" ->
           IF outcome = "error" THEN "generate" ELSE "done"
      [] at = "generate" ->
           IF outcome = "error" THEN "done" ELSE "execute_llm"
      [] at = "execute_llm" ->
           IF outcome = "error" THEN "synthesize" ELSE "explain"
      [] at = "explain" -> "done"

\* a control flow that synthesizes again when the template query fails
NextPcResynthesizing(at, outcome) ==
    CASE at = "classify" ->
           IF outcome # "general" THEN "synthesize" ELSE "generate"
      [] at = "synthesize" ->
           IF outcome = "query" THEN "execute_semantic" ELSE "generate"
      [] at = "execute_semantic" ->
           IF outcome = "error" THEN "synthesize" ELSE "done"
      [] at = "generate" ->
           IF outcome = "error" THEN "done" ELSE "execute_llm"
      [] at = "execute_llm" ->
           IF outcome = "error" THEN "done" ELSE "explain"
      [] at = "explain" -> "done"

\* control flow of process_question / _process_semantic_query /
\* _process_llm_query: where the resolution goes after the step `at`
NextPc(at, outcome) ==
    CASE at = "classify" ->
           IF outcome # "general" THEN "synthesize" ELSE "generate"
      [] at = "synthesize" ->
           IF outcome = "query" THEN "execute_semantic" ELSE "generate"
      [] at = "execute_semantic" ->
           IF outcome = "error" THEN "generate" ELSE "done"
      [] at = "generate" ->
           IF outcome = "error" THEN "done" ELSE "execute_llm"
      [] at = "execute_llm" ->
           IF outcome = "error" THEN "done" ELSE "explain"
      [] at = "explain" -> "done"

\* a tag that does not name the template strategy
UntaggedQueryType(question_type) == "llm_generated"

\* f"semantic_{question_type}"
SemanticQueryType(question_type) == "semantic_" \o question_type

\* the LIMIT clause _process_llm_query appends when the query has none
AddLimit(sql, lim) ==
    IF Contains(Upper(Chars(sql)), Chars("LIMIT")) THEN sql
    ELSE sql \o " LIMIT " \o (IF lim = None THEN "None" ELSE ToString(lim[1]))

\* one call of generate_natural_response with the text it returned
Rendering(q, results, question_type) ==
    [question_type |-> question_type, results |-> results,
     text |-> generate_natural_response(q, results, question_type)]

Init ==
    \* the constructor has tried _load_table_info() once
    /\ table_info \in {LoadTableInfo(None, d) : d \in ConnectionTests}
    /\ pc = "idle"
    /\ question = ""
    /\ limit = None
    /\ classified = None
    /\ template = "untried"
    /\ sql_query = None
    /\ llm_response = None
    /\ query_result = None
    /\ generate_call = None
    /\ explain_call = None
    /\ rendered = None
    /\ result = None
    /\ calls = <<>>

\* StockAIService.process_question(question, limit) is entered: the table
\* information is loaded if missing; without it the request ends at once
ProcessQuestion(q, l, driver) ==
    /\ pc = "idle"
    /\ LET loaded == IF NoTableInfo(table_info)
                     THEN LoadTableInfo(table_info, driver) ELSE table_info
       IN  /\ table_info' = loaded
           /\ calls' = IF NoTableInfo(table_info)
                       THEN <<Call("test_connection", "service", "")>> ELSE <<>>
           /\ IF NoTableInfo(loaded)
              THEN /\ result' = Some(ErrorResponse(q, None,
                                        "Database connection not available"))
                   /\ pc' = "done"
              ELSE /\ result' = None
                   /\ pc' = "classify"
    /\ question' = q
    /\ limit' = l
    /\ classified' = None
    /\ template' = "untried"
    /\ sql_query' = None
    /\ llm_response' = None
    /\ query_result' = None
    /\ generate_call' = None
    /\ explain_call' = None
    /\ rendered' = None

\* EnhancedQueryProcessor.process_question, step 1: classification
Classify ==
    /\ pc = "classify"
    /\ \E c \in {classify_question_type(question)} :
           /\ classified' = Some(c)
           /\ pc' = NextPc("classify", c.type)
    /\ calls' = Append(calls, Call("classify_question_type", "semantic", question))
    /\ UNCHANGED <<table_info, question, limit, template, sql_query,
                   llm_response, query_result, generate_call, explain_call,
                   rendered, result>>

\* _process_semantic_query: the query is synthesized; an exception of the
\* synthesis is caught there and, like no query, makes it return None
Synthesize ==
    /\ pc = "synthesize"
    /\ \E g \in {generate_contextual_sql(question, classified[1].type,
                                         classified[1].context)} :
       LET outcome == IF g.raises THEN "raised"
                      ELSE IF g.sql = None THEN "absent" ELSE "query"
       IN  /\ sql_query' = g.sql
           /\ template' = IF outcome = "query" THEN "synthesized" ELSE outcome
           /\ pc' = NextPc("synthesize", outcome)
           \* returning here returns _process_semantic_query's None
           /\ result' = None
    /\ calls' = Append(calls, Call("generate_contextual_sql", "semantic", question))
    /\ UNCHANGED <<table_info, question, limit, classified, llm_response,
                   query_result, generate_call, explain_call, rendered>>

\* _process_semantic_query: the template query is executed and, when that
\* succeeds, the rows are rendered and the response is returned
ExecuteSemantic(driver) ==
    /\ pc = "execute_semantic"
    /\ LET qr == execute_query(driver)
           next == NextPc("execute_semantic", qr.status)
           semantic_result ==
               IF qr.status = "error" THEN None
               ELSE Some(SuccessResponse(question, sql_query[1], qr.data,
                            generate_natural_response(question, qr.data,
                                                      classified[1].type),
                            qr.row_count,
                            SemanticQueryType(classified[1].type)))
       IN  /\ query_result' = Some(qr)
           /\ rendered' = IF qr.status = "error" THEN None
                          ELSE Some(Rendering(question, qr.data, classified[1].type))
           /\ template' = IF qr.status = "error" THEN "failed" ELSE "succeeded"
           /\ pc' = next
           /\ result' = IF next = "done" THEN semantic_result ELSE None
           /\ calls' = Append(calls, Call("execute_query", "semantic", sql_query[1]))
                       \o (IF qr.status = "error" THEN <<>>
                           ELSE <<Call("generate_natural_response", "semantic", question)>>)
    /\ UNCHANGED <<table_info, question, limit, classified, sql_query, llm_response,
                   generate_call, explain_call>>

\* _process_llm_query: the query is generated and given its LIMIT clause
Generate(invoked) ==
    /\ pc = "generate"
    /\ LET r == generate_sql_query(question, invoked)
           next == NextPc("generate", r.status)
       IN  /\ llm_response' = Some(r)
           /\ sql_query' = IF r.status = "error" THEN None
                           ELSE Some(AddLimit(r.sql_query, limit))
           /\ pc' = next
           /\ result' = IF next = "done" /\ r.status = "error"
                        THEN Some(ErrorResponse(question, None,
                                    "Failed to generate SQL query: " \o r.message))
                        ELSE None
    /\ query_result' = None
    /\ calls' = Append(calls, Call("generate_sql_query", "llm", question))
    /\ generate_call' = Some(invoked)
    /\ UNCHANGED <<table_info, question, limit, classified, template, explain_call,
                   rendered>>

\* _process_llm_query: the generated query is executed
ExecuteLlm(driver) ==
    /\ pc = "execute_llm"
    /\ LET qr == execute_query(driver)
           next == NextPc("execute_llm", qr.status)
       IN  /\ query_result' = Some(qr)
           /\ pc' = next
           /\ result' = IF next = "done" /\ qr.status = "error"
                        THEN Some(ErrorResponse(question, sql_query,
                                    "Query execution failed: " \o qr.message))
                        ELSE None
    /\ calls' = Append(calls, Call("execute_query", "llm", sql_query[1]))
    /\ UNCHANGED <<table_info, question, limit, classified, template, sql_query,
                   llm_response, generate_call, explain_call, rendered>>

\* _process_llm_query: the rows are explained and the response is returned
Explain(invoked) ==
    /\ pc = "explain"
    /\ result' = Some(SuccessResponse(question, sql_query[1], query_result[1].data,
                        explain_results(query_result[1].data, invoked),
                        query_result[1].row_count, "llm_generated"))
    /\ explain_call' = Some(invoked)
    /\ UNCHANGED generate_call
    /\ pc' = NextPc("explain", "success")
    /\ calls' = Append(calls, Call("explain_results", "llm", sql_query[1]))
    /\ UNCHANGED <<table_info, question, limit, classified, template, sql_query,
                   llm_response, query_result, rendered>>

\* process_question has returned `result` to its caller: the locals of the
\* call are gone, the service keeps its table information
Return ==
    /\ pc = "done"
    /\ pc' = "idle"
    /\ question' = ""
    /\ limit' = None
    /\ classified' = None
    /\ template' = "untried"
    /\ sql_query' = None
    /\ llm_response' = None
    /\ query_result' = None
    /\ generate_call' = None
    /\ explain_call' = None
    /\ rendered' = None
    /\ result' = None
    /\ calls' = <<>>
    /\ UNCHANGED table_info

Next ==
    \/ \E q \in Questions, l \in Limits, d \in ConnectionTests : ProcessQuestion(q, l, d)
    \/ Classify
    \/ Synthesize
    \/ \E d \in QueryRuns : ExecuteSemantic(d)
    \/ \E i \in SqlInvocations : Generate(i)
    \/ \E d \in QueryRuns : ExecuteLlm(d)
    \/ \E i \in ExplainInvocations : Explain(i)
    \/ Return

Spec == Init /\ [][Next]_vars

(***************************************************************************)
(* The renderer called on its own                                          *)
(***************************************************************************)
\* longest row sequence rendered
MaxRenderRows == 6

\* question_type values given to the renderer: the three intents and one
\* that is none of them
RenderIntents == {"trend_current", "trend_change", "trend_history", "volume"}

\* a row without columns
NoColumns == [c \in {} |-> None]

\* what a row can hold for each column: the column is absent, NULL or a value
EngNames == {NoColumns, [EngName |-> None], [EngName |-> Some("")],
             [EngName |-> Some("ACME")]}

HebNames == {NoColumns, [HebName |-> None], [HebName |-> Some("heb")]}

Nrnums == {NoColumns, [Nrnum |-> None], [Nrnum |-> Some("230011")]}

Dates == {NoColumns, [Date |-> Some("2024-01-05")]}

Prices == {NoColumns, [Price |-> Some("10.5")]}

TheTrendDs == {NoColumns, [TheTrendD |-> None], [TheTrendD |-> Some("1")],
               [TheTrendD |-> Some("3")], [TheTrendD |-> Some("1.0")]}

Transitions == {NoColumns, [from_trend |-> Some("1"), to_trend |-> Some("2")]}

\* single rows with every combination of absent, NULL and present columns
FieldRows ==
    { e @@ h @@ n @@ d @@ p @@ t @@ c :
        e \in EngNames, h \in HebNames, n \in Nrnums, d \in Dates, p \in Prices,
        t \in TheTrendDs, c \in Transitions }

\* rows of a trend history: one per enumerated trend value
TrendRows ==
    { [Nrnum |-> Some("230011"), Date |-> Some("2024-01-05"), TheTrendD |-> Some(v),
       Price |-> Some("10.5"), HebName |-> Some("heb"), EngName |-> Some("ACME")] :
        v \in {"0", "1", "2"} }

\* rows of a trend change
ChangeRows ==
    { [Nrnum |-> Some("230011"), Date |-> Some("2024-01-05"), from_trend |-> Some("1"),
       to_trend |-> Some("2"), HebName |-> Some("heb"), EngName |-> Some("ACME")],
      [Nrnum |-> Some("230012"), Date |-> Some("2024-01-04"), from_trend |-> Some("2"),
       to_trend |-> Some("0"), HebName |-> None, EngName |-> None] }

\* the row sequences rendered
RenderInputs ==
    {<<>>}
    \cup { <<r>> : r \in FieldRows }
    \cup UNION { [1..n -> TrendRows] : n \in 1..MaxRenderRows }
    \cup UNION { [1..n -> ChangeRows] : n \in 1..MaxRenderRows }

\* semantic_mapping_service.generate_natural_response(question, results,
\* question_type) called on its own, once
RenderCall(q, results, question_type) ==
    /\ pc = "idle"
    /\ rendered = None
    /\ rendered' = Some(Rendering(q, results, question_type))
    /\ UNCHANGED <<table_info, pc, question, limit, classified, template, sql_query,
                   llm_response, query_result, generate_call, explain_call,
                   result, calls>>

RenderNext ==
    \E results \in RenderInputs, t \in RenderIntents : RenderCall("", results, t)

RenderSpec == Init /\ [][RenderNext]_vars

(***************************************************************************)
(* Properties of one resolution                                            *)
(***************************************************************************)
\* positions of the calls of fn made for the given path
CallsOf(fn, path) ==
    {i \in 1..Len(calls) : calls[i].fn = fn /\ calls[i].path = path}

CountOf(fn, path) == Cardinality(CallsOf(fn, path))

\* every call of `later` comes after some call of `earlier`
Precedes(earlier, later) ==
    \A i \in later : \E j \in earlier : j < i

Classified == classified # None

Intent == classified[1].type

Returned == pc = "done" /\ result # None

GenerativePcs == {"generate", "execute_llm", "explain", "done"}

\* the template path was entered and did not produce a result
TemplateFailed == template \in {"absent", "raised", "failed"}

GenerationFailed == llm_response # None /\ llm_response[1].status = "error"

GeneratedQueryFailed ==
    /\ llm_response # None
    /\ query_result # None
    /\ query_result[1].status = "error"

FoundText(n) ==
    "Found " \o ToString(n)
    \o " results for your query. Please review the data for specific insights."

\* what the generative path returns, given what its collaborators did
GenerativeResult ==
    IF llm_response[1].status = "error"
    THEN [status |-> "error", question |-> question, sql_query |-> None,
          results |-> None, explanation |-> None, row_count |-> None,
          error_message |-> Some("Failed to generate SQL query: "
                                 \o llm_response[1].message),
          query_type |-> None]
    ELSE IF query_result[1].status = "error"
    THEN [status |-> "error", question |-> question, sql_query |-> sql_query,
          results |-> None, explanation |-> None, row_count |-> None,
          error_message |-> Some("Query execution failed: "
                                 \o query_result[1].message),
          query_type |-> None]
    ELSE [status |-> "success", question |-> question, sql_query |-> sql_query,
          results |-> Some(query_result[1].data),
          explanation |-> Some(IF explain_call[1].raises
                               THEN FoundText(Len(query_result[1].data))
                               ELSE Str(Strip(Chars(explain_call[1].content)))),
          row_count |-> Some(Len(query_result[1].data)), error_message |-> None,
          query_type |-> Some("llm_generated")]

\* C1: whatever the question and whatever the collaborators do (no query
\* synthesized, an execution error, a text generation that raises, a
\* synthesis that raises), a resolution that ends has returned a structured
\* result whose status is 'success' or 'error'; before it ends nothing has
\* been returned
C1_AlwaysStructuredResult ==
    /\ pc = "done" => /\ result # None
                      /\ result[1].status \in {"success", "error"}
                      /\ result[1].question = question
    /\ pc \notin {"done"} => result = None

\* a resolution whose synthesis raised and whose query generation raised too
\* has ended with an error result
C1_Witness ==
    /\ pc = "done"
    /\ template = "raised"
    /\ GenerationFailed
    /\ result # None
    /\ result[1].status = "error"

\* C2: when the intent is not 'general' and the template path fails (no
\* query synthesized, the synthesis raised, or the template query's execution
\* reported an error), the resolution goes on to the generative path, and the
\* result it returns is exactly the generative path's: nothing of the
\* template failure is in it
C2_SilentFallback ==
    (Classified /\ Intent # "general" /\ TemplateFailed) =>
        /\ pc \in GenerativePcs
        /\ pc # "generate" => CountOf("generate_sql_query", "llm") = 1
        /\ pc = "done" => result = Some(GenerativeResult)

\* the template query failed and the generative path then succeeded
C2_Witness ==
    /\ Classified
    /\ Intent # "general"
    /\ template = "failed"
    /\ Returned
    /\ result[1].status = "success"
    /\ result[1].query_type = Some("llm_generated")

\* C3: when the intent is 'general' the template path is skipped: nothing is
\* synthesized and nothing is executed before the query-generation call, and
\* that call is always made
C3_GeneralSkipsTemplate ==
    (Classified /\ Intent = "general") =>
        /\ template = "untried"
        /\ CallsOf("generate_contextual_sql", "semantic") = {}
        /\ CallsOf("execute_query", "semantic") = {}
        /\ CallsOf("generate_natural_response", "semantic") = {}
        /\ pc \in GenerativePcs
        /\ pc # "generate" =>
             /\ CountOf("generate_sql_query", "llm") = 1
             /\ \A g \in CallsOf("generate_sql_query", "llm") :
                  \A i \in 1..(g - 1) :
                     calls[i].fn \in {"test_connection", "classify_question_type"}

\* the question of scenario 3 was resolved by the generative path
C3_Witness ==
    /\ question = "What stocks have high volume?"
    /\ Classified
    /\ Intent = "general"
    /\ Returned
    /\ CountOf("execute_query", "llm") = 1

\* C4: when a template query was synthesized and its execution succeeded, the
\* resolution has returned a success result tagged 'semantic_<intent>' that
\* carries the template query, the rows returned and the rendered text, and
\* neither text-generation call was made
C4_TemplateSuccess ==
    template = "succeeded" =>
        /\ pc = "done"
        /\ result # None
        /\ result[1].status = "success"
        /\ result[1].query_type = Some("semantic_" \o Intent)
        /\ Intent \in {QueryTypes[i] : i \in 1..Len(QueryTypes)}
        /\ result[1].sql_query =
              generate_contextual_sql(question, Intent, classified[1].context).sql
        /\ result[1].sql_query # None
        /\ result[1].results = Some(query_result[1].data)
        /\ result[1].row_count = Some(Len(query_result[1].data))
        /\ result[1].explanation =
              Some(generate_natural_response(question, query_result[1].data, Intent))
        /\ result[1].error_message = None
        /\ \A i \in 1..Len(calls) : calls[i].path # "llm"

\* a trend-history template query returned two rows
C4_Witness ==
    /\ template = "succeeded"
    /\ Classified
    /\ Intent = "trend_history"
    /\ Returned
    /\ result[1].row_count = Some(2)

\* C5: when the query generation fails, or the generated query's execution
\* reports an error, the resolution has ended with an error result that
\* carries the failure message; no explanation is requested and nothing more
\* is generated or executed
C5_GenerativeFailureTerminal ==
    /\ GenerationFailed =>
         /\ pc = "done"
         /\ result # None
         /\ result[1].status = "error"
         /\ result[1].error_message =
               Some("Failed to generate SQL query: " \o llm_response[1].message)
         /\ CountOf("generate_sql_query", "llm") = 1
         /\ CountOf("execute_query", "llm") = 0
         /\ CountOf("explain_results", "llm") = 0
         /\ calls[Len(calls)].fn = "generate_sql_query"
    /\ GeneratedQueryFailed =>
         /\ pc = "done"
         /\ result # None
         /\ result[1].status = "error"
         /\ result[1].error_message =
               Some("Query execution failed: " \o query_result[1].message)
         /\ CountOf("generate_sql_query", "llm") = 1
         /\ CountOf("execute_query", "llm") = 1
         /\ CountOf("explain_results", "llm") = 0
         /\ calls[Len(calls)] = Call("execute_query", "llm", sql_query[1])

\* the generated query's execution failed with a message
C5_Witness ==
    /\ GeneratedQueryFailed
    /\ query_result[1].message = "connection lost"
    /\ Returned
    /\ result[1].status = "error"

\* C6: the calls of a resolution are ordered: classification before
\* synthesis, synthesis before the template query's execution, query
\* generation before the generated query's execution, that execution before
\* the explanation, and every template-path call before every
\* generative-path call
C6_CallOrder ==
    /\ Precedes(CallsOf("classify_question_type", "semantic"),
                CallsOf("generate_contextual_sql", "semantic"))
    /\ Precedes(CallsOf("generate_contextual_sql", "semantic"),
                CallsOf("execute_query", "semantic"))
    /\ Precedes(CallsOf("generate_sql_query", "llm"),
                CallsOf("execute_query", "llm"))
    /\ Precedes(CallsOf("execute_query", "llm"),
                CallsOf("explain_results", "llm"))
    /\ \A i, j \in 1..Len(calls) :
          (calls[i].path = "semantic" /\ calls[j].path = "llm") => i < j

\* a resolution that made every call: both paths, to the explanation
C6_Witness ==
    /\ pc = "done"
    /\ CountOf("generate_contextual_sql", "semantic") = 1
    /\ CountOf("execute_query", "semantic") = 1
    /\ CountOf("generate_sql_query", "llm") = 1
    /\ CountOf("execute_query", "llm") = 1
    /\ CountOf("explain_results", "llm") = 1

\* C7: nothing is retried in a resolution: each of synthesis, template
\* execution, query generation, generated-query execution and explanation
\* happens at most once, so there are at most two query executions and at
\* most two text-generation calls
C7_NoRetry ==
    /\ CountOf("classify_question_type", "semantic") <= 1
    /\ CountOf("generate_contextual_sql", "semantic") <= 1
    /\ CountOf("execute_query", "semantic") <= 1
    /\ CountOf("generate_sql_query", "llm") <= 1
    /\ CountOf("execute_query", "llm") <= 1
    /\ CountOf("explain_results", "llm") <= 1
    /\ Cardinality({i \in 1..Len(calls) : calls[i].fn = "execute_query"}) <= 2
    /\ Cardinality({i \in 1..Len(calls) :
                      calls[i].fn \in {"generate_sql_query", "explain_results"}}) <= 2

\* a resolution with two query executions and two text-generation calls
C7_Witness ==
    /\ pc = "done"
    /\ Cardinality({i \in 1..Len(calls) : calls[i].fn = "execute_query"}) = 2
    /\ Cardinality({i \in 1..Len(calls) :
                      calls[i].fn \in {"generate_sql_query", "explain_results"}}) = 2

\* C8: a returned result is well-formed for its status: an error result has a
\* non-empty message and neither rows nor explanation; a success result has
\* the query that was executed, the rows, their count, an explanation and a
\* strategy tag 'semantic_<intent>' or 'llm_generated'
C8_WellFormedResult ==
    Returned =>
        LET r == result[1]
            executed == {i \in 1..Len(calls) : calls[i].fn = "execute_query"}
        IN  /\ r.status = "error" =>
                 /\ r.error_message # None
                 /\ r.error_message[1] # ""
                 /\ r.results = None
                 /\ r.explanation = None
            /\ r.status = "success" =>
                 /\ r.sql_query # None
                 /\ executed # {}
                 /\ r.sql_query[1] = calls[SetMax(executed)].arg
                 /\ r.results # None
                 /\ r.row_count = Some(Len(r.results[1]))
                 /\ r.explanation # None
                 /\ r.error_message = None
                 /\ r.query_type \in
                       {Some("llm_generated")}
                       \cup {Some("semantic_" \o QueryTypes[i]) : i \in 1..Len(QueryTypes)}

\* an error result that carries the query whose execution failed
C8_Witness ==
    /\ Returned
    /\ result[1].status = "error"
    /\ result[1].sql_query # None
    /\ result[1].error_message = Some("Query execution failed: connection lost")

\* C9: when the generated query executed and the explanation call raised, the
\* resolution still returns a success result with the query and the rows; its
\* explanation is 'Found N results for your query. ...' with N the number of
\* rows
C9_ExplanationFallback ==
    (explain_call # None /\ explain_call[1].raises) =>
        /\ pc = "done"
        /\ result # None
        /\ result[1].status = "success"
        /\ result[1].error_message = None
        /\ result[1].sql_query = sql_query
        /\ sql_query # None
        /\ query_result[1].status = "success"
        /\ result[1].results = Some(query_result[1].data)
        /\ result[1].explanation = Some(FoundText(Len(query_result[1].data)))

\* the explanation call raised after the generated query returned two rows
C9_Witness ==
    /\ explain_call # None
    /\ explain_call[1].raises
    /\ Returned
    /\ Len(result[1].results[1]) = 2
    /\ result[1].explanation =
          Some("Found 2 results for your query. Please review the data for specific insights.")

Scenario2Question ==
    "Show me the trend history for symbol 230011 over the last 7 days"

\* C10: for the question of scenario 2 the intent is 'trend_history', the day
\* count extracted is 7 and the synthesized query is capped at 7 rows
C10_Scenario2 ==
    (question = Scenario2Question /\ template = "synthesized") =>
        /\ Intent = "trend_history"
        /\ ExtractDays(question) = [raises |-> FALSE, days |-> 7]
        /\ Contains(Chars(sql_query[1]), Chars("LIMIT 7\n"))

\* the characters of the question in progress, lower-cased
QuestionChars == Lower(Chars(question))

\* positions of the digit runs of cs that are directly followed by 'day'
\* (after blanks): the starts of its '<number> day(s)' phrases
DayPhrases(cs) ==
    {i \in 1..Len(cs) :
        /\ IsDigit(cs[i])
        /\ i = 1 \/ ~IsDigit(cs[i - 1])
        /\ OccursAt(cs, Chars("day"), SpaceRunEnd(cs, DigitRunEnd(cs, i)))}

\* the number a question states as '<number> day(s)': 7 without such a phrase
StatedDays(cs) ==
    IF DayPhrases(cs) = {} THEN 7
    ELSE LET i == SetMin(DayPhrases(cs))
         IN  DigitsValue(SubSeq(cs, i, DigitRunEnd(cs, i) - 1))

\* C11: the day count extracted from a question is 7 when it has no
\* '<number> day(s)' phrase and otherwise the number of that phrase, also
\* when the question has other digit runs
C11_DayCount ==
    (pc = "synthesize" /\ classified[1].type = "trend_history") =>
        ExtractDays(question) = [raises |-> FALSE, days |-> StatedDays(QuestionChars)]

\* the query generation got an output from the generative collaborator
Generated == generate_call # None /\ ~generate_call[1].raises

\* that output, as characters
GeneratedChars == Chars(generate_call[1].content)

\* the output has apology / refusal language
HasRefusal(cs) ==
    \E w \in {"I'm sorry", "I cannot", "does not contain"} : Contains(cs, Chars(w))

\* the text has a bracketed placeholder token
HasPlaceholder(cs) ==
    \E w \in {"[Enter", "[specific", "[value"} : Contains(cs, Chars(w))

\* the query texts handed to execute_query on the generative path
ExecutedGenerated == {calls[i].arg : i \in CallsOf("execute_query", "llm")}

\* C12: on the generative path the query text handed to the execution ends
\* with the statement terminator ';', nothing after it, for every output of
\* the generative collaborator and every limit
C12_TerminatedQuery ==
    \A q \in ExecutedGenerated : EndsWith(Chars(q), <<";">>)

\* the text of a query up to its first ';'
FirstStatement(cs) ==
    LET semi == {i \in 1..Len(cs) : cs[i] = ";"}
    IN  IF semi = {} THEN cs ELSE SubSeq(cs, 1, SetMin(semi) - 1)

\* what follows the first ';' of a query is nothing or one '--' comment
RestIsComment(cs) ==
    LET semi == {i \in 1..Len(cs) : cs[i] = ";"}
        rest == Strip(SubSeq(cs, SetMin(semi) + 1, Len(cs)))
    IN  semi # {} /\ (rest = <<>> \/ (StartsWith(rest, Chars("--"))
                                      /\ ~Contains(rest, <<"\n">>)))

SafeNoOpText == "SELECT 1 LIMIT 0; -- No valid query could be generated;"

\* C13: when the generative output has apology / refusal language the whole
\* output is replaced before execution: the statement executed is the fixed
\* no-op query SELECT 1 LIMIT 0 (followed by a comment only), whatever the
\* rest of the output and whatever the caller's limit
C13_RefusalReplaced ==
    (Generated /\ HasRefusal(GeneratedChars)) =>
        /\ llm_response[1].status = "success"
        /\ sql_query = Some(SafeNoOpText)
        /\ Str(FirstStatement(Chars(sql_query[1]))) = "SELECT 1 LIMIT 0"
        /\ RestIsComment(Chars(sql_query[1]))
        /\ ExecutedGenerated \subseteq {SafeNoOpText}
        /\ pc # "execute_llm" => ExecutedGenerated = {SafeNoOpText}

\* a refusal inside other text was replaced and executed, with a limit given
C13_Witness ==
    /\ Generated
    /\ generate_call[1].content = "The table does not contain volume. SELECT 1"
    /\ limit = Some(100)
    /\ ExecutedGenerated = {SafeNoOpText}

\* C14: when the clean-up finds a bracketed placeholder token in the
\* generative output, the token is replaced by the default value: the query
\* that is executed has no bracketed placeholder token
C14_PlaceholdersReplaced ==
    (Generated /\ ~HasRefusal(GeneratedChars) /\ HasPlaceholder(GeneratedChars)) =>
        /\ ~HasPlaceholder(Chars(sql_query[1]))
        /\ \A q \in ExecutedGenerated : ~HasPlaceholder(Chars(q))

\* the question is in the hands of the template synthesizer
Synthesizing == pc \in {"synthesize", "execute_semantic"}

\* positions where cs has the keyword followed by blanks and a digit
KeywordForms(cs, kw) ==
    {i \in 1..Len(cs) :
        /\ OccursAt(cs, Chars(kw), i)
        /\ SpaceRunEnd(cs, i + Len(kw)) > i + Len(kw)
        /\ SpaceRunEnd(cs, i + Len(kw)) <= Len(cs)
        /\ IsDigit(cs[SpaceRunEnd(cs, i + Len(kw))])}

\* the digit run of cs that starts at position j, as text
DigitsAt(cs, j) == Str(SubSeq(cs, j, DigitRunEnd(cs, j) - 1))

\* the digits of the leftmost '<keyword> <digits>' form of cs
KeywordDigits(cs, kw) ==
    DigitsAt(cs, SpaceRunEnd(cs, SetMin(KeywordForms(cs, kw)) + Len(kw)))

\* starts of the runs of six or more digits of cs
BareRuns(cs) ==
    {i \in 1..Len(cs) :
        /\ IsDigit(cs[i])
        /\ i = 1 \/ ~IsDigit(cs[i - 1])
        /\ DigitRunEnd(cs, i) - i >= 6}

\* the symbol by the three rules, in rule order
SymbolByRules(cs) ==
    IF KeywordForms(cs, "symbol") # {} THEN Some(KeywordDigits(cs, "symbol"))
    ELSE IF KeywordForms(cs, "stock") # {} THEN Some(KeywordDigits(cs, "stock"))
    ELSE IF BareRuns(cs) # {} THEN Some(DigitsAt(cs, SetMin(BareRuns(cs))))
    ELSE None

\* C15: symbol extraction applies its rules in rule order, not text order:
\* the digits of 'symbol <digits>' if the question has that form, else those
\* of 'stock <digits>', else the first bare run of six or more digits, else
\* nothing; a keyword form wins over a bare run that comes earlier
C15_SymbolRuleOrder ==
    Synthesizing => extract_symbol_from_question(question) = SymbolByRules(QuestionChars)

\* a question whose bare seven-digit run comes before its 'symbol' form got a
\* query for the symbol of the keyword form
C15_Witness ==
    /\ pc = "execute_semantic"
    /\ BareRuns(QuestionChars) # {}
    /\ KeywordForms(QuestionChars, "symbol") # {}
    /\ SetMin(BareRuns(QuestionChars)) < SetMin(KeywordForms(QuestionChars, "symbol"))
    /\ Contains(Chars(sql_query[1]), Chars("WHERE s.Nrnum = 123456\n"))

JustClassified ==
    /\ calls # <<>>
    /\ calls[Len(calls)].fn = "classify_question_type"

\* the (intent, pattern number) pairs in declaration order
DeclaredPatterns ==
    << <<"trend_current", 1>>, <<"trend_current", 2>>, <<"trend_current", 3>>,
       <<"trend_current", 4>>, <<"trend_current", 5>>,
       <<"trend_change", 1>>, <<"trend_change", 2>>, <<"trend_change", 3>>,
       <<"trend_change", 4>>,
       <<"trend_history", 1>>, <<"trend_history", 2>>, <<"trend_history", 3>> >>

\* the pattern of a declared pair
DeclaredPattern(k) == Patterns(DeclaredPatterns[k][1])[DeclaredPatterns[k][2]]

\* the declared pairs whose pattern is found in cs
MatchingPatterns(cs) ==
    {k \in 1..Len(DeclaredPatterns) : Search(DeclaredPattern(k), cs) # NoMatch}

\* C17: classification is first-match in declaration order: the intents are
\* scanned as trend_current, trend_change, trend_history, each intent's
\* patterns in declared order; the first matching pair is returned with the
\* groups its pattern captured, and a question that matches no pattern is
\* 'general' with an empty match result
C17_FirstMatch ==
    JustClassified =>
        \A cs \in {QuestionChars} : \A found \in {MatchingPatterns(cs)} :
            IF found = {}
            THEN classified = Some([type |-> "general", context |-> None])
            ELSE \A k \in {SetMin(found)} :
                    /\ classified[1].type = DeclaredPatterns[k][1]
                    /\ classified[1].context # None
                    /\ classified[1].context[1].pattern = DeclaredPatterns[k][2]
                    /\ classified[1].context[1].sql_template
                          = SqlTemplate(DeclaredPatterns[k][1])
                    /\ classified[1].context[1].matches
                          = Groups(cs, Search(DeclaredPattern(k), cs))

\* a question that matches patterns of two intents got the earlier one
C17_Witness ==
    /\ JustClassified
    /\ classified[1].type = "trend_current"
    /\ \E cs \in {QuestionChars} :
           Search(Patterns("trend_history")[1], cs) # NoMatch

\* the synthesis has just been attempted
JustSynthesized ==
    /\ calls # <<>>
    /\ calls[Len(calls)].fn = "generate_contextual_sql"

\* C18: synthesis fails closed: for each of the three intents, a question
\* from which no symbol is extracted gets no query from the synthesis, and
\* the resolution goes on to the generative path as if the template path
\* had declined
C18_FailsClosed ==
    (JustSynthesized /\ extract_symbol_from_question(question) = None) =>
        /\ Intent \in {"trend_current", "trend_change", "trend_history"}
        /\ sql_query = None
        /\ template = "absent"
        /\ pc = "generate"
        /\ result = None

\* a trend-history question without a symbol was declined by the synthesis
C18_Witness ==
    /\ JustSynthesized
    /\ Intent = "trend_history"
    /\ extract_symbol_from_question(question) = None
    /\ template = "absent"

\* the number of places where w occurs in cs
Occurrences(cs, w) == Cardinality({i \in 1..Len(cs) : OccursAt(cs, w, i)})

\* the row bound a synthesized query of the intent must end with
RowBound(intent, days) ==
    CASE intent = "trend_current" -> "LIMIT 1"
      [] intent = "trend_change" -> "LIMIT 10"
      [] intent = "trend_history" -> "LIMIT " \o ToString(days)

\* C19: every query the template synthesizer produces has one explicit row
\* bound, set by its intent: 1 for trend_current, whose query also contains
\* the symbol, 10 for trend_change, and the extracted day count for
\* trend_history; the bound is the last clause of the query
C19_RowBound ==
    pc = "execute_semantic" =>
        \A q \in {Strip(Chars(sql_query[1]))} :
            /\ Occurrences(q, Chars("LIMIT")) = 1
            /\ \A d \in {IF Intent = "trend_history" THEN ExtractDays(question).days
                         ELSE 0} :
                   EndsWith(q, Chars(RowBound(Intent, d)))
            /\ Intent = "trend_current" =>
                   \E symbol \in {extract_symbol_from_question(question)} :
                       /\ symbol # None
                       /\ Contains(q, Chars(symbol[1]))

\* a trend-history query was synthesized with a day count other than the
\* default
C19_Witness ==
    /\ pc = "execute_semantic"
    /\ Intent = "trend_history"
    /\ ExtractDays(question).days # 7
    /\ ~EndsWith(Strip(Chars(sql_query[1])), Chars("LIMIT 7"))

\* a non-empty run of decimal digits
AllDigits(cs) == cs # <<>> /\ \A i \in 1..Len(cs) : IsDigit(cs[i])

\* the fixed template of the intent with its placeholders replaced by the
\* symbol and, for trend_history, the day count
Substituted(intent, symbol, days) ==
    LET tpl == SqlTemplate(intent)
    IN  IF intent = "trend_history"
        THEN tpl[1].lit \o symbol \o tpl[3].lit \o ToString(days) \o tpl[5].lit
        ELSE tpl[1].lit \o symbol \o tpl[3].lit

\* C20: a synthesized query is its intent's fixed template with only the
\* placeholders replaced, by the extracted symbol, a non-empty run of digits,
\* and for trend_history by the extracted day count, a non-negative integer;
\* no other text of the question and no capture group of the classifier is
\* in the query
C20_OnlyPlaceholders ==
    pc = "execute_semantic" =>
        \A symbol \in {extract_symbol_from_question(question)} :
        \A d \in {IF Intent = "trend_history" THEN ExtractDays(question)
                  ELSE [raises |-> FALSE, days |-> 0]} :
            /\ symbol # None
            /\ AllDigits(Chars(symbol[1]))
            /\ ~d.raises
            /\ d.days \in Nat
            /\ sql_query[1] = Substituted(Intent, symbol[1], d.days)

\* a query was synthesized for a question whose classifier capture group is
\* not the symbol
C20_Witness ==
    /\ pc = "execute_semantic"
    /\ classified[1].context[1].matches # <<>>
    /\ classified[1].context[1].matches[1] # extract_symbol_from_question(question)[1]
    /\ Contains(Chars(sql_query[1]), Chars(extract_symbol_from_question(question)[1]))

\* the row bound a query text states: the number of its last LIMIT <number>
\* clause, wherever in the text it stands; None when the text has none
RowBoundOf(cs) ==
    LET clauses == {i \in 1..Len(cs) :
                      /\ OccursAt(cs, Chars("LIMIT "), i)
                      /\ i + 6 <= Len(cs)
                      /\ IsDigit(cs[i + 6])}
    IN  IF clauses = {} THEN None
        ELSE LET from == SetMax(clauses) + 6
             IN  Some(DigitsValue(SubSeq(cs, from, DigitRunEnd(cs, from) - 1)))

\* C21: for a request with limit L, every query that is executed, on the
\* template path and on the generative path, bounds its rows to at most L
C21_RowsWithinLimit ==
    limit # None =>
        \A i \in 1..Len(calls) :
            calls[i].fn = "execute_query" =>
                \A bound \in {RowBoundOf(Chars(calls[i].arg))} :
                    /\ bound # None
                    /\ bound[1] <= limit[1]

\* C22: resolutions share no mutable state: the only state that outlives a
\* request is the service's table information, and no request leaves table
\* information behind that a later request would use instead of its own
C22_NoSharedMutableState ==
    [][table_info' # table_info => NoTableInfo(table_info')]_vars

\* the generative collaborator has been asked for a query in this request
GenerativeReached == CallsOf("generate_sql_query", "llm") # {}

\* C23: a request that reaches the generative path has obtained
\* the table information its schema description is built from during that
\* same request
C23_SchemaOfSameRequest ==
    GenerativeReached =>
        /\ CountOf("test_connection", "service") = 1
        /\ Precedes(CallsOf("test_connection", "service"),
                    CallsOf("generate_sql_query", "llm"))

(***************************************************************************)
(* Properties of the renderer                                              *)
(***************************************************************************)
\* the renderer has been called with these rows for this intent
Rendered == rendered # None

RenderedRows == rendered[1].results

RenderedIntent == rendered[1].question_type

RenderedText == rendered[1].text

\* C24: rendering an empty row sequence returns the fixed message
\* 'No data found for your query.' for every intent, the three known ones
\* and any other
C24_NoDataMessage ==
    (Rendered /\ RenderedRows = <<>>) =>
        RenderedText = "No data found for your query."

\* no rows were rendered for an intent that is none of the three
C24_Witness ==
    /\ Rendered
    /\ RenderedRows = <<>>
    /\ RenderedIntent \notin {"trend_current", "trend_change", "trend_history"}
    /\ RenderedText = "No data found for your query."

\* the trend label of a row of a trend history
HistoryLabel(row) == interpret_trend_value(Get(row, "TheTrendD"))

\* the trend labels that occur in the rows
HistoryLabels(rows) == {HistoryLabel(rows[i]) : i \in 1..Len(rows)}

\* the number of rows with the label
RowsWithLabel(rows, label) ==
    Cardinality({i \in 1..Len(rows) : HistoryLabel(rows[i]) = label})

\* the count phrase of a label, as it stands in the summary: after ': ' or
\* ', ' and before ',' or the final '.'
HasCountPhrase(cs, count, label) ==
    \E before \in {": ", ", "}, after \in {",", "."} :
        Contains(cs, Chars(before \o ToString(count) \o " days of " \o label \o after))

\* C25: for trend_history on N >= 1 rows the summary has one count phrase
\* '{count} days of {label}' per trend label that occurs in the rows, three
\* when uptrend, downtrend and sideways all occur; each count is the number
\* of rows with that label, so the counts sum to N and are the same for
\* every ordering of the rows
C25_HistoryCounts ==
    (Rendered /\ RenderedIntent = "trend_history" /\ Len(RenderedRows) >= 1) =>
        \A cs \in {Chars(RenderedText)} : \A labels \in {HistoryLabels(RenderedRows)} :
            /\ Occurrences(cs, Chars(" days of ")) = Cardinality(labels)
            /\ \A label \in labels :
                   HasCountPhrase(cs, RowsWithLabel(RenderedRows, label), label)

\* a history of more than three rows with all three trends was summarised,
\* its first row repeated later
C25_Witness ==
    /\ Rendered
    /\ RenderedIntent = "trend_history"
    /\ Len(RenderedRows) > 3
    /\ Cardinality(HistoryLabels(RenderedRows)) = 3
    /\ RenderedRows[1] = RenderedRows[Len(RenderedRows)]
    /\ Occurrences(Chars(RenderedText), Chars(" days of ")) = 3

\* C26: rendering the intent trend_change on zero rows reports the message
\* 'No trend changes found for the specified criteria.'
C26_NoChangesMessage ==
    (Rendered /\ RenderedIntent = "trend_change" /\ Len(RenderedRows) = 0) =>
        RenderedText = "No trend changes found for the specified criteria."

\* the number of change entries listed for n rows
ListedChanges(n) == IF n < 5 THEN n ELSE 5

RECURSIVE ChangesFrom(_, _, _)
\* the entries of rows i..k, in that order, with '; ' between them
ChangesFrom(rows, i, k) ==
    IF i = k THEN ChangeText(rows[i])
    ELSE ChangeText(rows[i]) \o "; " \o ChangesFrom(rows, i + 1, k)

\* C27: for trend_change on N >= 1 rows the text lists exactly min(N, 5)
\* change entries, those of the first rows in their given order, joined by
\* '; ', and reports N as the total number of changes
C27_ChangeList ==
    (Rendered /\ RenderedIntent = "trend_change" /\ Len(RenderedRows) >= 1) =>
        \A n \in {Len(RenderedRows)} :
            /\ RenderedText
                 = "Found " \o ToString(n) \o " trend changes. Recent changes: "
                   \o ChangesFrom(RenderedRows, 1, ListedChanges(n)) \o "."
            /\ Occurrences(Chars(RenderedText), Chars(" changed from "))
                 = ListedChanges(n)

\* six changes were rendered: five are listed, six are reported, and the
\* first two rows differ
C27_Witness ==
    /\ Rendered
    /\ RenderedIntent = "trend_change"
    /\ Len(RenderedRows) = 6
    /\ RenderedRows[1] # RenderedRows[2]
    /\ "from_trend" \in DOMAIN RenderedRows[1]
    /\ StartsWith(Chars(RenderedText), Chars("Found 6 trend changes."))
    /\ Occurrences(Chars(RenderedText), Chars("; ")) = 4

\* the row has a value, not NULL and not empty, in the column
HasValue(row, column) ==
    /\ column \in DOMAIN row
    /\ row[column] # None
    /\ row[column][1] # ""

\* the symbol as the generated label shows it
LabelSymbol(row) ==
    IF "Nrnum" \notin DOMAIN row THEN "Unknown"
    ELSE IF row["Nrnum"] = None THEN "None"
    ELSE row["Nrnum"][1]

\* the name to show for a row: English, else localized, else 'Stock {symbol}'
NameToShow(row) ==
    IF HasValue(row, "EngName") THEN row["EngName"][1]
    ELSE IF HasValue(row, "HebName") THEN row["HebName"][1]
    ELSE "Stock " \o LabelSymbol(row)

\* some optional column of the row is absent or NULL
FieldMissing(row) ==
    \E column \in {"EngName", "HebName", "Nrnum", "Date", "Price", "TheTrendD"} :
        column \notin DOMAIN row \/ row[column] = None

\* C28: the renderer is total over non-empty row sets with missing optional
\* fields: for every intent and rows in which any of the name, symbol, date,
\* price or trend columns is absent or NULL it returns a text, and the stock
\* name in it is the English name if the row has one, else the localized
\* name if the row has one, else the generated label 'Stock {symbol}'
C28_TotalRenderer ==
    (Rendered /\ Len(RenderedRows) >= 1) =>
        \A cs \in {Chars(RenderedText)} : \A name \in {NameToShow(RenderedRows[1])} :
            /\ Len(cs) > 0
            /\ EndsWith(cs, <<".">>)
            /\ RenderedIntent = "trend_current" =>
                   StartsWith(cs, Chars("The current trend for " \o name \o " (symbol "))
            /\ RenderedIntent = "trend_history" =>
                   StartsWith(cs, Chars("Trend history for " \o name \o " (symbol "))
            /\ RenderedIntent = "trend_change" =>
                   Contains(cs, Chars(" Recent changes: " \o name \o " changed from "))

\* a row without names, date, price and trend was rendered with the
\* generated label
C28_Witness ==
    /\ Rendered
    /\ RenderedIntent = "trend_current"
    /\ Len(RenderedRows) = 1
    /\ DOMAIN RenderedRows[1] = {"Nrnum", "HebName"}
    /\ RenderedRows[1]["HebName"] = None
    /\ FieldMissing(RenderedRows[1])
    /\ StartsWith(Chars(RenderedText), Chars("The current trend for Stock 230011 "))

\* C29: for every raw trend value v the trend label the renderer shows is
\* the Field Catalog's description of v for the daily trend field: the
\* mapped meaning when the text of v is '0', '1' or '2', and otherwise the
\* text of v unchanged
C29_LabelIsCatalogDescription ==
    (/\ Rendered
     /\ RenderedIntent = "trend_current"
     /\ Len(RenderedRows) >= 1
     /\ HasValue(RenderedRows[1], "TheTrendD")) =>
        Contains(Chars(RenderedText),
                 Chars(" is " \o get_value_description(Some(TrendMeanings),
                                                        RenderedRows[1]["TheTrendD"])
                       \o ". The stock price is "))

\* the service holds no table information, or that of no table
HoldsNoTables == table_info = None \/ table_info = Some(<<>>)

\* C30: when the service holds no table information and loading it fails
\* or yields no tables, process_question returns the error 'Database
\* connection not available' and has run no classification, no query
\* execution and no text generation, also for a question the template path
\* could resolve
C30_NoDatabaseNoWork ==
    (pc # "idle" /\ HoldsNoTables) =>
        /\ pc = "done"
        /\ result # None
        /\ result[1].status = "error"
        /\ result[1].question = question
        /\ result[1].error_message = Some("Database connection not available")
        /\ calls = <<Call("test_connection", "service", "")>>
        /\ classified = None
        /\ sql_query = None
        /\ query_result = None
        /\ generate_call = None
        /\ explain_call = None
        /\ rendered = None

\* a question of the template path was refused because the loading yielded
\* no tables
C30_Witness ==
    /\ pc = "done"
    /\ table_info = Some(<<>>)
    /\ question = "What is the trend on symbol 230011 today?"
    /\ result[1].error_message = Some("Database connection not available")
    /\ calls = <<Call("test_connection", "service", "")>>

====
